---- MODULE Spec2Model ----
(***************************************************************************)
(* A model of wolfsoftware.pushover.Pushover: a client object holding two  *)
(* credentials, a messages URL and a timeout, and four synchronous         *)
(* operations, each of which builds a request, hands it to the transport   *)
(* (requests.post / requests.get), checks the status and either returns    *)
(* the decoded JSON body or raises.                                        *)
(*                                                                         *)
(* The transport, the file system and the JSON decoder are the             *)
(* environment: what they answer is chosen nondeterministically per call.  *)
(* One action is one whole invocation; the order of the steps inside it is *)
(* kept in last.events.                                                    *)
(***************************************************************************)
EXTENDS Integers, Sequences, FiniteSets, TLC

VARIABLES
    self,          \* the client's fields: user_key, api_token, api_url, timeout
    ctor,          \* the arguments the client was constructed with
    last,          \* the last invocation: its arguments, environment, requests, events, outcome
    log,           \* names of the operations invoked so far, oldest first
    open_handles   \* attachment handles opened by finished invocations and not closed

vars == <<self, ctor, last, log, open_handles>>

(***************************************************************************)
(* Bounds and input domains                                                *)
(***************************************************************************)
MaxCalls == 2

\* Python's None, for the optional string arguments.
None == "<None>"

DefaultTimeout == 10
DefaultRetry == 30
DefaultExpire == 3600
DefaultPriority == 0
EmergencyPriority == 2

MessagesUrl == "https://api.pushover.net/1/messages.json"
SoundsUrl == "https://api.pushover.net/1/sounds.json"

UserKeys == {"U", "V"}
ApiTokens == {"T"}
Timeouts == {DefaultTimeout, 5}
Messages == {"hi"}
\* The optional arguments of a message: all left at their defaults, or set.
Optionals == { [title |-> None, priority |-> DefaultPriority], [title |-> "Title", priority |-> 1] }
Retries == {60}
Expires == {7200}
GroupKeys == {"G", "U"}
Attachments == {None, "", "path/to/file"}

\* Statuses the transport may answer with: 1xx, 2xx, 3xx, 4xx, 5xx.
StatusCodes == {100, 200, 301, 404, 500}

\* Raw bodies the transport may answer with, the last one not JSON.
Bodies == {"{\"status\": 1}", "{\"sounds\": {\"pushover\": \"Pushover (default)\"}}", "<html>"}

NoValue == [none |-> TRUE]
NoExc == [type |-> "none", text |-> ""]
NoResponse == [status |-> 0, error_text |-> "", body |-> "", json_error |-> NoExc]

(***************************************************************************)
(* The environment: exceptions, the transport's answers, the JSON decoder  *)
(***************************************************************************)
\* The exception classes that are requests.exceptions.RequestException or a
\* subclass of it: what `except (HTTPError, RequestException)` catches.
\* requests.exceptions.JSONDecodeError is one of them.
RequestExceptionTypes ==
    {"RequestException", "HTTPError", "ConnectionError", "Timeout", "JSONDecodeError"}

\* Failures the transport itself raises, each with its str() text.
TransportFailures ==
    { [type |-> "ConnectionError", text |-> "Connection refused"],
      [type |-> "Timeout", text |-> "Read timed out"] }

\* What open(attachment, "rb") raises when the file cannot be opened.
OpenFailure == [type |-> "FileNotFoundError", text |-> "No such file or directory"]

\* The text of the HTTPError that raise_for_status builds for an error status;
\* there is none for the other statuses.
ErrorText(status) ==
    CASE status = 404 -> "404 Client Error: Not Found"
      [] status = 500 -> "500 Server Error: Internal Server Error"
      [] OTHER -> ""

\* What response.json() raises for a body that is not JSON: the requests
\* library's own JSONDecodeError, a RequestException, or a plain ValueError
\* where the installed library raises the decoder's error as it is.
DecodeFailures ==
    { [type |-> "JSONDecodeError", text |-> "Expecting value: line 1 column 1 (char 0)"],
      [type |-> "ValueError", text |-> "Expecting value: line 1 column 1 (char 0)"] }

IsJson(body) ==
    body \in {"{\"status\": 1}", "{\"sounds\": {\"pushover\": \"Pushover (default)\"}}"}

\* A response: its status, the text raise_for_status would raise with, its
\* body, and what json() raises on it (nothing when the body is JSON).
Responses ==
    { [status |-> s, error_text |-> ErrorText(s), body |-> b, json_error |-> NoExc] :
        s \in StatusCodes, b \in { x \in Bodies : IsJson(x) } }
    \cup
    { [status |-> s, error_text |-> ErrorText(s), body |-> b, json_error |-> e] :
        s \in StatusCodes, b \in { x \in Bodies : ~IsJson(x) }, e \in DecodeFailures }

Transports ==
    { [raises |-> TRUE, exc |-> f, response |-> NoResponse] : f \in TransportFailures }
    \cup { [raises |-> FALSE, exc |-> NoExc, response |-> r] : r \in Responses }

\* An environment for one invocation: whether the attachment can be opened
\* (asked only when there is one) and what the transport does.
Envs(attachment) ==
    { [open_ok |-> o, transport |-> t] :
        o \in (IF attachment # None /\ attachment # "" THEN BOOLEAN ELSE {TRUE}),
        t \in Transports }

\* response.json(): the decoded body, or a decoding failure.
JsonDecode(body) ==
    CASE body = "{\"status\": 1}" ->
            [ok |-> TRUE, value |-> [status |-> 1]]
      [] body = "{\"sounds\": {\"pushover\": \"Pushover (default)\"}}" ->
            [ok |-> TRUE, value |-> [sounds |-> [pushover |-> "Pushover (default)"]]]
      [] OTHER ->
            [ok |-> FALSE, value |-> NoValue]

(***************************************************************************)
(* Pushover.__init__                                                       *)
(***************************************************************************)
Pushover_init(user_key, api_token, timeout) ==
    [ user_key  |-> user_key,
      api_token |-> api_token,
      api_url   |-> MessagesUrl,
      timeout   |-> timeout ]

(***************************************************************************)
(* Request construction                                                    *)
(***************************************************************************)
\* `if attachment:` - None and the empty string are both false.
Truthy(s) == s # None /\ s # ""

\* The payload of send_message with the optionals left unset filtered out.
MessagePayload_OmitUnset(this, a) ==
    IF a.title = None
    THEN [ token     |-> this.api_token,
           user      |-> this.user_key,
           message   |-> a.message,
           priority  |-> a.priority ]
    ELSE [ token     |-> this.api_token,
           user      |-> this.user_key,
           message   |-> a.message,
           title     |-> a.title,
           url       |-> a.url,
           url_title |-> a.url_title,
           priority  |-> a.priority,
           sound     |-> a.sound,
           device    |-> a.device ]

\* The payload of send_message: user is the stored user_key.
MessagePayload(this, a) ==
    [ token     |-> this.api_token,
      user      |-> this.user_key,
      message   |-> a.message,
      title     |-> a.title,
      url       |-> a.url,
      url_title |-> a.url_title,
      priority  |-> a.priority,
      sound     |-> a.sound,
      device    |-> a.device ]

\* The emergency payload with the priority of an ordinary message.
EmergencyPayload_CallerPriority(this, a) ==
    [ token     |-> this.api_token,
      user      |-> this.user_key,
      message   |-> a.message,
      title     |-> a.title,
      url       |-> a.url,
      url_title |-> a.url_title,
      priority  |-> DefaultPriority,
      retry     |-> a.retry,
      expire    |-> a.expire,
      sound     |-> a.sound,
      device    |-> a.device ]

\* The payload of send_emergency_message: priority is the literal 2.
EmergencyPayload(this, a) ==
    [ token     |-> this.api_token,
      user      |-> this.user_key,
      message   |-> a.message,
      title     |-> a.title,
      url       |-> a.url,
      url_title |-> a.url_title,
      priority  |-> EmergencyPriority,
      retry     |-> a.retry,
      expire    |-> a.expire,
      sound     |-> a.sound,
      device    |-> a.device ]

\* The group payload addressed to the stored user_key.
GroupPayload_StoredUser(this, a) ==
    [ token     |-> this.api_token,
      user      |-> this.user_key,
      message   |-> a.message,
      title     |-> a.title,
      url       |-> a.url,
      url_title |-> a.url_title,
      priority  |-> a.priority,
      sound     |-> a.sound,
      device    |-> a.device ]

\* The payload of send_group_message: user is the group_key argument.
GroupPayload(this, a) ==
    [ token     |-> this.api_token,
      user      |-> a.group_key,
      message   |-> a.message,
      title     |-> a.title,
      url       |-> a.url,
      url_title |-> a.url_title,
      priority  |-> a.priority,
      sound     |-> a.sound,
      device    |-> a.device ]

\* The params of list_sounds: the token alone.
SoundsParams(this) == [ token |-> this.api_token ]

NoFiles == {}
NoData == [none |-> TRUE]
NoParams == [none |-> TRUE]

\* requests.post(self.api_url, data=payload[, files=files], timeout=self.timeout)
PostRequest(this, payload, files) ==
    [ method  |-> "POST",
      url     |-> this.api_url,
      data    |-> payload,
      params  |-> NoParams,
      files   |-> files,
      timeout |-> this.timeout ]

\* The sounds request sent as a POST of token and user to the messages URL.
GetRequest_AsPost(this) ==
    [ method  |-> "POST",
      url     |-> this.api_url,
      data    |-> [ token |-> this.api_token, user |-> this.user_key ],
      params  |-> NoParams,
      files   |-> NoFiles,
      timeout |-> this.timeout ]

\* requests.get(sounds_url, params=params, timeout=self.timeout)
GetRequest(this) ==
    [ method  |-> "GET",
      url     |-> SoundsUrl,
      data    |-> NoData,
      params  |-> SoundsParams(this),
      files   |-> NoFiles,
      timeout |-> this.timeout ]

(***************************************************************************)
(* The body of the try block                                               *)
(***************************************************************************)
\* A call that retries once when the transport raises.
Transmit_Retrying(req, ev, env) ==
    [ events   |-> IF env.transport.raises THEN <<ev, ev>> ELSE <<ev>>,
      requests |-> IF env.transport.raises THEN <<req, req>> ELSE <<req>>,
      raised   |-> env.transport.raises,
      exc      |-> env.transport.exc,
      response |-> env.transport.response,
      leaked   |-> 0 ]

\* One call of the transport: the request goes out once, and the call either
\* raises the transport's failure or evaluates to its response.
Transmit(req, ev, env) ==
    [ events   |-> <<ev>>,
      requests |-> <<req>>,
      raised   |-> env.transport.raises,
      exc      |-> env.transport.exc,
      response |-> env.transport.response,
      leaked   |-> 0 ]

\* The handle closed only when the request did not raise.
PostWithFile_CloseOnSuccessOnly(this, payload, attachment, env) ==
    IF ~env.open_ok
    THEN [ events |-> <<"open_rb">>, requests |-> <<>>, raised |-> TRUE,
           exc |-> OpenFailure, response |-> NoResponse, leaked |-> 0 ]
    ELSE LET files == { [field |-> "attachment", path |-> attachment, mode |-> "rb"] }
             sent  == Transmit(PostRequest(this, payload, files), "post", env)
         IN  IF sent.raised
             THEN [sent EXCEPT !.events = <<"open_rb">> \o sent.events, !.leaked = 1]
             ELSE [sent EXCEPT !.events = <<"open_rb">> \o sent.events \o <<"close">>]

\* with open(attachment, "rb") as file: requests.post(..., files={"attachment": file}, ...)
\* open() may raise; once it has returned, leaving the with block closes the
\* handle, whether the post returned or raised.
PostWithFile(this, payload, attachment, env) ==
    IF ~env.open_ok
    THEN [ events |-> <<"open_rb">>, requests |-> <<>>, raised |-> TRUE,
           exc |-> OpenFailure, response |-> NoResponse, leaked |-> 0 ]
    ELSE LET files == { [field |-> "attachment", path |-> attachment, mode |-> "rb"] }
             sent  == Transmit(PostRequest(this, payload, files), "post", env)
         IN  [sent EXCEPT !.events = <<"open_rb">> \o sent.events \o <<"close">>]

\* if attachment: ... else: requests.post(self.api_url, data=payload, timeout=self.timeout)
Post(this, payload, attachment, env) ==
    IF Truthy(attachment)
    THEN PostWithFile(this, payload, attachment, env)
    ELSE Transmit(PostRequest(this, payload, NoFiles), "post", env)

\* requests.get(...) of list_sounds
Get(this, env) == Transmit(GetRequest(this), "get", env)

(***************************************************************************)
(* Status check, exception translation and the return value                *)
(***************************************************************************)
MessagePrefix == "Failed to send message: "

\* The emergency prefix left as the one of send_message.
EmergencyPrefix_Copied == "Failed to send message: "

EmergencyPrefix == "Failed to send emergency message: "

GroupPrefix == "Failed to send group message: "

SoundsPrefix == "Failed to list sounds: "

\* return <value>
Return(value) ==
    [ kind |-> "return", type |-> "none", message |-> "", cause |-> "none", value |-> value ]

\* raise PushoverException(f"<prefix>{e}") from e
Wrap(prefix, exc) ==
    [ kind |-> "raise", type |-> "PushoverException", message |-> prefix \o exc.text,
      cause |-> exc.type, value |-> NoValue ]

\* An exception no handler catches leaves the operation as it is.
Propagate(exc) ==
    [ kind |-> "raise", type |-> exc.type, message |-> exc.text,
      cause |-> "none", value |-> NoValue ]

\* A status check that raises for 4xx only.
raise_for_status_ClientOnly(response) ==
    IF 400 =< response.status /\ response.status < 500
    THEN [type |-> "HTTPError", text |-> response.error_text]
    ELSE NoExc

\* response.raise_for_status(): HTTPError for a 4xx or 5xx status, nothing otherwise.
raise_for_status(response) ==
    IF 400 =< response.status /\ response.status < 600
    THEN [type |-> "HTTPError", text |-> response.error_text]
    ELSE NoExc

\* Returns a fixed document instead of the decoded body.
Settle_FixedReturn(this, sent, prefix) ==
    IF sent.raised
    THEN [ self |-> this, requests |-> sent.requests, events |-> sent.events,
           leaked |-> sent.leaked,
           outcome |-> IF sent.exc.type \in RequestExceptionTypes
                       THEN Wrap(prefix, sent.exc) ELSE Propagate(sent.exc) ]
    ELSE LET err == raise_for_status(sent.response)
         IN  IF err # NoExc
             THEN [ self |-> this, requests |-> sent.requests,
                    events |-> sent.events \o <<"raise_for_status">>,
                    leaked |-> sent.leaked, outcome |-> Wrap(prefix, err) ]
             ELSE [ self |-> this, requests |-> sent.requests,
                    events |-> sent.events \o <<"raise_for_status", "json">>,
                    leaked |-> sent.leaked,
                    outcome |-> Return([status |-> 1]) ]

\* The decode moved inside the try block: a decoding failure that is a
\* RequestException is translated like the other failures.
Settle_DecodeInsideTry(this, sent, prefix) ==
    IF sent.raised
    THEN [ self |-> this, requests |-> sent.requests, events |-> sent.events,
           leaked |-> sent.leaked,
           outcome |-> IF sent.exc.type \in RequestExceptionTypes
                       THEN Wrap(prefix, sent.exc) ELSE Propagate(sent.exc) ]
    ELSE LET err == raise_for_status(sent.response)
             doc == JsonDecode(sent.response.body)
         IN  IF err # NoExc
             THEN [ self |-> this, requests |-> sent.requests,
                    events |-> sent.events \o <<"raise_for_status">>,
                    leaked |-> sent.leaked, outcome |-> Wrap(prefix, err) ]
             ELSE [ self |-> this, requests |-> sent.requests,
                    events |-> sent.events \o <<"raise_for_status", "json">>,
                    leaked |-> sent.leaked,
                    outcome |-> IF doc.ok THEN Return(doc.value)
                                ELSE IF sent.response.json_error.type \in RequestExceptionTypes
                                     THEN Wrap(prefix, sent.response.json_error)
                                     ELSE Propagate(sent.response.json_error) ]

\* What follows the request in each operation:
\*     response.raise_for_status()
\* except (HTTPError, RequestException) as e: raise PushoverException(...) from e
\* return response.json()
\* `sent` is what the request part of the try block did.
Settle(this, sent, prefix) ==
    IF sent.raised
    THEN [ self |-> this, requests |-> sent.requests, events |-> sent.events,
           leaked |-> sent.leaked,
           outcome |-> IF sent.exc.type \in RequestExceptionTypes
                       THEN Wrap(prefix, sent.exc) ELSE Propagate(sent.exc) ]
    ELSE LET err == raise_for_status(sent.response)
             doc == JsonDecode(sent.response.body)
         IN  IF err # NoExc
             THEN [ self |-> this, requests |-> sent.requests,
                    events |-> sent.events \o <<"raise_for_status">>,
                    leaked |-> sent.leaked, outcome |-> Wrap(prefix, err) ]
             ELSE [ self |-> this, requests |-> sent.requests,
                    events |-> sent.events \o <<"raise_for_status", "json">>,
                    leaked |-> sent.leaked,
                    outcome |-> IF doc.ok THEN Return(doc.value)
                                ELSE Propagate(sent.response.json_error) ]

(***************************************************************************)
(* The four operations                                                     *)
(***************************************************************************)
send_message(this, a, env) ==
    Settle(this, Post(this, MessagePayload(this, a), a.attachment, env), MessagePrefix)

send_emergency_message(this, a, env) ==
    Settle(this, Transmit(PostRequest(this, EmergencyPayload(this, a), NoFiles), "post", env),
           EmergencyPrefix)

\* The group key stored as the client's user key.
send_group_message_StoresKey(this, a, env) ==
    Settle([this EXCEPT !.user_key = a.group_key],
           Post(this, GroupPayload(this, a), a.attachment, env), GroupPrefix)

send_group_message(this, a, env) ==
    Settle(this, Post(this, GroupPayload(this, a), a.attachment, env), GroupPrefix)

list_sounds(this, env) ==
    Settle(this, Get(this, env), SoundsPrefix)

(***************************************************************************)
(* The state machine                                                       *)
(***************************************************************************)
NoArgs == [attachment |-> None]

MessageArgs ==
    { [ message |-> m, title |-> o.title, url |-> None, url_title |-> None,
        priority |-> o.priority, sound |-> None, device |-> None, attachment |-> f ] :
        m \in Messages, o \in Optionals, f \in Attachments }

\* Calls of send_emergency_message: `given` names the keywords among retry and
\* expire that the caller passes; the value of one not passed is not read.
EmergencyCalls ==
    { [ message |-> m, title |-> o.title, given |-> g, retry |-> r, expire |-> e ] :
        m \in Messages, o \in Optionals, g \in {{}, {"retry"}, {"retry", "expire"}},
        r \in Retries, e \in Expires }

\* The parameters of send_emergency_message as bound at a call: retry=30 and
\* expire=3600 unless passed; there is no priority and no attachment parameter.
EmergencyArgs(call) ==
    [ message |-> call.message, title |-> call.title, url |-> None, url_title |-> None,
      retry  |-> IF "retry" \in call.given THEN call.retry ELSE DefaultRetry,
      expire |-> IF "expire" \in call.given THEN call.expire ELSE DefaultExpire,
      sound |-> None, device |-> None, attachment |-> None, given |-> call.given ]

GroupArgs ==
    { [ message |-> m, group_key |-> g, title |-> o.title, url |-> None, url_title |-> None,
        priority |-> o.priority, sound |-> None, device |-> None, attachment |-> f ] :
        m \in Messages, g \in GroupKeys, o \in Optionals, f \in Attachments }

NoCall ==
    [ op |-> "none", args |-> NoArgs,
      env |-> [open_ok |-> TRUE, transport |-> [raises |-> FALSE, exc |-> NoExc, response |-> NoResponse]],
      requests |-> <<>>, events |-> <<>>, outcome |-> Return(NoValue) ]

Init ==
    \E u \in UserKeys, t \in ApiTokens, to \in Timeouts :
        /\ ctor = [user_key |-> u, api_token |-> t, timeout |-> to]
        /\ self = Pushover_init(u, t, to)
        /\ last = NoCall
        /\ log = <<>>
        /\ open_handles = 0

\* One whole invocation with result r.
Invoke(op, a, env, r) ==
    /\ self' = r.self
    /\ last' = [ op |-> op, args |-> a, env |-> env, requests |-> r.requests,
                 events |-> r.events, outcome |-> r.outcome ]
    /\ log' = Append(log, op)
    /\ open_handles' = open_handles + r.leaked
    /\ UNCHANGED ctor

SendMessage ==
    /\ Len(log) < MaxCalls
    /\ \E a \in MessageArgs : \E env \in Envs(a.attachment) :
          Invoke("send_message", a, env, send_message(self, a, env))

SendEmergencyMessage ==
    /\ Len(log) < MaxCalls
    /\ \E call \in EmergencyCalls : \E env \in Envs(None) :
          LET a == EmergencyArgs(call)
          IN  Invoke("send_emergency_message", a, env, send_emergency_message(self, a, env))

SendGroupMessage ==
    /\ Len(log) < MaxCalls
    /\ \E a \in GroupArgs : \E env \in Envs(a.attachment) :
          Invoke("send_group_message", a, env, send_group_message(self, a, env))

ListSounds ==
    /\ Len(log) < MaxCalls
    /\ \E env \in Envs(None) :
          Invoke("list_sounds", NoArgs, env, list_sounds(self, env))

Next == SendMessage \/ SendEmergencyMessage \/ SendGroupMessage \/ ListSounds

Spec == Init /\ [][Next]_vars

(***************************************************************************)
(* Vocabulary of the properties                                            *)
(***************************************************************************)
Operations == {"send_message", "send_emergency_message", "send_group_message", "list_sounds"}

Called == last.op \in Operations

\* The invocation was given an attachment path that `if attachment:` accepts.
WithAttachment ==
    last.op \in {"send_message", "send_group_message"} /\ last.args.attachment \notin {None, ""}

\* The invocation got as far as the transport: it had no file to open, or opened it.
Reached == Called /\ (WithAttachment => last.env.open_ok)

\* The transport answered with a response / raised a failure of its own.
Answered == Reached /\ ~last.env.transport.raises
TransportRaised == Reached /\ last.env.transport.raises

Status == last.env.transport.response.status
Body == last.env.transport.response.body

ValidJson(body) ==
    body \in {"{\"status\": 1}", "{\"sounds\": {\"pushover\": \"Pushover (default)\"}}"}

\* The JSON document a body denotes.
Document(body) ==
    IF body = "{\"status\": 1}" THEN [status |-> 1]
    ELSE [sounds |-> [pushover |-> "Pushover (default)"]]

Count(seq, e) == Cardinality({ i \in DOMAIN seq : seq[i] = e })

\* Position of the first occurrence of e in seq, 0 when there is none.
Position(seq, e) ==
    IF \E i \in DOMAIN seq : seq[i] = e
    THEN CHOOSE i \in DOMAIN seq : seq[i] = e /\ \A j \in 1..(i - 1) : seq[j] # e
    ELSE 0

RaisedPushoverException == last.outcome.kind = "raise" /\ last.outcome.type = "PushoverException"

Returned == last.outcome.kind = "return"

(***************************************************************************)
(* C1: when the transport answers one of the four operations with a 2xx    *)
(* status and a JSON body B, the operation returns B and the transport     *)
(* (post, or get for list_sounds) was invoked exactly once in that call.   *)
(***************************************************************************)
C1_SuccessReturnsBody ==
    (Answered /\ Status \in 200..299 /\ ValidJson(Body)) =>
        /\ Returned
        /\ last.outcome.value = Document(Body)
        /\ Len(last.requests) = 1
        /\ Count(last.events, "post") + Count(last.events, "get") = 1
        /\ Count(last.events, IF last.op = "list_sounds" THEN "get" ELSE "post") = 1

C1_Witness ==
    /\ last.op = "list_sounds"
    /\ Answered /\ Status = 200
    /\ Returned
    /\ last.outcome.value = [sounds |-> [pushover |-> "Pushover (default)"]]
    /\ Len(last.requests) = 1

PrefixOf(op) ==
    CASE op = "send_message" -> "Failed to send message: "
      [] op = "send_emergency_message" -> "Failed to send emergency message: "
      [] op = "send_group_message" -> "Failed to send group message: "
      [] op = "list_sounds" -> "Failed to list sounds: "

C3_FailureMessage ==
    /\ TransportRaised =>
          /\ RaisedPushoverException
          /\ last.outcome.message = PrefixOf(last.op) \o last.env.transport.exc.text
    /\ (Answered /\ Status \in 400..599) =>
          /\ RaisedPushoverException
          /\ last.outcome.message = PrefixOf(last.op) \o last.env.transport.response.error_text
    /\ RaisedPushoverException => (TransportRaised \/ (Answered /\ Status \in 400..599))

C3_Witness ==
    /\ last.op = "send_emergency_message"
    /\ TransportRaised
    /\ last.env.transport.exc.type = "Timeout"
    /\ last.outcome.type = "PushoverException"
    /\ last.outcome.message = "Failed to send emergency message: Read timed out"

(***************************************************************************)
(* C4: every invocation, with or without an attachment, provided the body  *)
(* of a 2xx response is valid JSON, ends by returning the parsed response  *)
(* or by raising PushoverException; no other exception reaches the caller. *)
(* The proviso is granted for every response, not only the 2xx ones, so    *)
(* that no failure to decode a body counts against the claim.              *)
(***************************************************************************)
C4_ReturnOrPushoverException ==
    (Called /\ (Answered => ValidJson(Body))) =>
        (Returned \/ RaisedPushoverException)

(***************************************************************************)
(* C5: with a non-empty attachment path, send_message and                  *)
(* send_group_message open the file exactly once, in mode "rb"; the        *)
(* request goes out with that handle under the field name "attachment"     *)
(* while the handle is open; and the handle is closed exactly once before  *)
(* the operation returns or raises, whether the request succeeded, got an  *)
(* HTTP error status or raised. No handle stays open after a call.         *)
(***************************************************************************)
C5_AttachmentHandleScoped ==
    /\ open_handles = 0
    /\ WithAttachment =>
          /\ Count(last.events, "open_rb") = 1
          /\ Position(last.events, "open_rb") = 1
    /\ (WithAttachment /\ last.env.open_ok) =>
          /\ Len(last.requests) = 1
          /\ last.requests[1].files =
                { [field |-> "attachment", path |-> last.args.attachment, mode |-> "rb"] }
          /\ Count(last.events, "close") = 1
          /\ Position(last.events, "open_rb") < Position(last.events, "post")
          /\ Position(last.events, "post") < Position(last.events, "close")
          /\ Position(last.events, "raise_for_status") # 0 =>
                Position(last.events, "close") < Position(last.events, "raise_for_status")
    /\ (Called /\ ~(WithAttachment /\ last.env.open_ok)) => Count(last.events, "close") = 0

C5_Witness ==
    /\ last.op = "send_message"
    /\ WithAttachment /\ last.env.open_ok
    /\ last.env.transport.raises
    /\ last.events = <<"open_rb", "post", "close">>
    /\ RaisedPushoverException
    /\ open_handles = 0

C7_EmergencyPriorityFixed ==
    last.op = "send_emergency_message" =>
        /\ Len(last.requests) = 1
        /\ last.requests[1].data.priority = 2
        /\ {"retry", "expire"} \subseteq DOMAIN last.requests[1].data
        /\ last.requests[1].data.retry = last.args.retry
        /\ last.requests[1].data.expire = last.args.expire
        /\ "retry" \notin last.args.given => last.requests[1].data.retry = 30
        /\ "expire" \notin last.args.given => last.requests[1].data.expire = 3600
        /\ last.requests[1].files = {}
        /\ Count(last.events, "open_rb") = 0

C7_Witness ==
    /\ last.op = "send_emergency_message"
    /\ last.args.given = {"retry"}
    /\ last.requests[1].data.priority = 2
    /\ last.requests[1].data.retry = 60
    /\ last.requests[1].data.expire = 3600

(***************************************************************************)
(* C8: every request of send_group_message, with or without attachment,    *)
(* has user equal to the group_key argument (so not the stored user_key    *)
(* when the two differ) and token equal to the client's api_token; every   *)
(* request of send_message and send_emergency_message has user equal to    *)
(* the stored user_key.                                                    *)
(***************************************************************************)
C8_GroupKeyIsUser ==
    \A i \in DOMAIN last.requests :
        /\ last.op = "send_group_message" =>
              /\ last.requests[i].data.user = last.args.group_key
              /\ last.args.group_key # ctor.user_key =>
                    last.requests[i].data.user # ctor.user_key
              /\ last.requests[i].data.token = ctor.api_token
        /\ last.op \in {"send_message", "send_emergency_message"} =>
              last.requests[i].data.user = ctor.user_key

C8_Witness ==
    /\ last.op = "send_group_message"
    /\ WithAttachment
    /\ ctor.user_key = "U" /\ last.args.group_key = "G"
    /\ Len(last.requests) = 1
    /\ last.requests[1].data.user = "G"

(***************************************************************************)
(* C9: list_sounds issues a GET to https://api.pushover.net/1/sounds.json  *)
(* whose only parameter is token, the client's api_token; it issues no     *)
(* POST, sends no body and does not include the user key.                  *)
(***************************************************************************)
C9_ListSoundsGetTokenOnly ==
    last.op = "list_sounds" =>
        /\ Len(last.requests) = 1
        /\ last.requests[1].method = "GET"
        /\ last.requests[1].url = "https://api.pushover.net/1/sounds.json"
        /\ DOMAIN last.requests[1].params = {"token"}
        /\ last.requests[1].params.token = ctor.api_token
        /\ last.requests[1].data = NoData
        /\ last.requests[1].files = {}
        /\ Count(last.events, "post") = 0
        /\ Count(last.events, "get") = 1

C9_Witness ==
    /\ last.op = "list_sounds"
    /\ last.requests[1].method = "GET"
    /\ last.requests[1].params = [token |-> "T"]
    /\ RaisedPushoverException

(***************************************************************************)
(* C10: after any sequence of invocations, succeeding or failing, the      *)
(* client's user_key, api_token, timeout and messages URL are the ones set *)
(* at construction: a send_group_message with another key does not change  *)
(* user_key, a later send_message still sends the original user_key, and   *)
(* every request carries the constructed api_token and timeout.            *)
(***************************************************************************)
TokenOf(req) == IF req.method = "GET" THEN req.params.token ELSE req.data.token

C10_ClientFieldsUnchanged ==
    /\ self = [ user_key  |-> ctor.user_key,
                api_token |-> ctor.api_token,
                api_url   |-> "https://api.pushover.net/1/messages.json",
                timeout   |-> ctor.timeout ]
    /\ \A i \in DOMAIN last.requests :
          /\ TokenOf(last.requests[i]) = ctor.api_token
          /\ last.requests[i].timeout = ctor.timeout
          /\ last.op = "send_message" => last.requests[i].data.user = ctor.user_key

C10_Witness ==
    /\ log = <<"send_group_message", "send_message">>
    /\ ctor.user_key = "V"
    /\ self.user_key = "V"
    /\ Len(last.requests) = 1
    /\ last.requests[1].data.user = "V"

(***************************************************************************)
(* C11: when the transport answers with a 2xx status and a body that is    *)
(* not JSON, no operation raises PushoverException: the failure raised by  *)
(* response.json() reaches the caller as it is, without the operation's    *)
(* prefix, also when it is a RequestException subtype, since the decode    *)
(* comes after the try block.                                              *)
(***************************************************************************)
C11_DecodeFailureUnwrapped ==
    (Answered /\ Status \in 200..299 /\ ~ValidJson(Body)) =>
        /\ last.outcome.kind = "raise"
        /\ ~RaisedPushoverException
        /\ last.outcome.type = last.env.transport.response.json_error.type
        /\ last.outcome.type \in {"JSONDecodeError", "ValueError"}
        /\ last.outcome.message = last.env.transport.response.json_error.text
        /\ last.outcome.message = "Expecting value: line 1 column 1 (char 0)"
        /\ last.outcome.cause = "none"
        /\ last.events[Len(last.events)] = "json"
        /\ Position(last.events, "raise_for_status") = Len(last.events) - 1

C11_Witness ==
    /\ last.op = "list_sounds"
    /\ Answered /\ Status = 200 /\ Body = "<html>"
    /\ last.env.transport.response.json_error.type = "JSONDecodeError"
    /\ "JSONDecodeError" \in RequestExceptionTypes
    /\ last.outcome.kind = "raise"
    /\ last.outcome.type = "JSONDecodeError"
    /\ last.outcome.message = "Expecting value: line 1 column 1 (char 0)"

(***************************************************************************)
(* C12: the fields of a messages request do not depend on which optional   *)
(* arguments were passed: send_message and send_group_message hand over    *)
(* exactly token, user, message, title, url, url_title, priority, sound    *)
(* and device, send_emergency_message those nine and retry and expire,     *)
(* an optional left unset being present with the value None; the request   *)
(* has a files part exactly when an attachment was given; and it is a POST *)
(* to https://api.pushover.net/1/messages.json.                            *)
(***************************************************************************)
NineFields ==
    {"token", "user", "message", "title", "url", "url_title", "priority", "sound", "device"}

OptionalFields == {"title", "url", "url_title", "sound", "device"}

C12_FixedFieldSet ==
    \A i \in DOMAIN last.requests :
        last.op \in {"send_message", "send_emergency_message", "send_group_message"} =>
            /\ DOMAIN last.requests[i].data =
                  IF last.op = "send_emergency_message"
                  THEN NineFields \cup {"retry", "expire"} ELSE NineFields
            /\ \A f \in OptionalFields :
                  last.requests[i].data[f] = last.args[f]
            /\ \A f \in OptionalFields :
                  last.args[f] = "<None>" => last.requests[i].data[f] = "<None>"
            /\ last.requests[i].data.message = last.args.message
            /\ (last.requests[i].files # {}) <=> WithAttachment
            /\ WithAttachment =>
                  { x.field : x \in last.requests[i].files } = {"attachment"}
            /\ last.requests[i].method = "POST"
            /\ last.requests[i].url = "https://api.pushover.net/1/messages.json"

C12_Witness ==
    /\ last.op = "send_message"
    /\ last.args.title = "<None>"
    /\ WithAttachment
    /\ Len(last.requests) = 1
    /\ DOMAIN last.requests[1].data = NineFields
    /\ last.requests[1].data.title = "<None>"
    /\ last.requests[1].files # {}
    /\ last.requests[1].method = "POST"

====
